---------------------------- MODULE Spec2Model ----------------------------
(***************************************************************************)
(* A model of the map widget of leighmcknight/v0-mvp:                      *)
(*   src/components/map-with-drawing.tsx  the MapWithDrawing component     *)
(*   src/unnamed/part_000                 README, page and utils/mapUtils  *)
(*                                                                         *)
(* Numbers.  JavaScript numbers are modelled by integers in exact          *)
(* arithmetic.  Coordinates count grid steps of 5e-7 degrees, half of the  *)
(* default comparison tolerance 0.000001, so that differences below, equal *)
(* to and above the tolerance exist on the grid.  IEEE-754 rounding is not *)
(* represented.                                                            *)
(*                                                                         *)
(* Map.  In Spec, SpecExport and SpecGeoref the Leaflet map and its layer  *)
(* groups are one map that lasts from mount to unmount: the parent passes  *)
(* defaultCenter, defaultZoom, defaultBasemap and mode values that do not  *)
(* change, so that the effect that creates the map runs once.  SpecMap     *)
(* drops that assumption: a render may change a dependency of that effect, *)
(* which removes the map and creates the next one, and the timer the       *)
(* effect starts and the records prop are part of the model.               *)
(***************************************************************************)
EXTENDS Integers, Sequences, FiniteSets, TLC

(***************************************************************************)
(* Bounds of the model.                                                    *)
(***************************************************************************)
\* largest grid coordinate of the inputs of the pure functions
MaxCoord == 2
\* longest ring handed to calculateArea on its own
MaxRing == 3
\* shapes the drawing plugin creates in one run (pm:create events)
MaxShapes == 2
\* state updates queued between two renders (events delivered back-to-back)
MaxPending == 2
\* pm:edit events in one run
MaxEdits == 1
\* presses of a Drawing Mode button in one run
MaxModeChanges == 1
\* map clicks of one capture, and layers in the georef layer group
MaxClicks == 3
MaxGeorefLayers == 2
\* maps created in one run (runs of the map-initialisation effect)
MaxMaps == 2
\* half width, in 0.001 m2, of the windows of formatArea inputs around 0 and
\* around each threshold
FmtWindow == 12

(***************************************************************************)
(* Program constants.                                                      *)
(***************************************************************************)
\* areCoordinatesEqual: tolerance = 0.000001 degrees = 2 grid steps
Tolerance == 2
\* calculateArea: the literal 2 of (2 + sin p1.lat + sin p2.lat).  Angles in
\* radians are counted in units of one grid step (5e-7 * PI / 180 rad =
\* 8.726646e-9 rad), in which 2 is 2 / 8.726646e-9.
Two == 229183118
\* formatArea: sqMeters < 10000, sqMeters < 1000000 (square meters)
HectareThreshold == 10000
SqKmThreshold == 1000000
\* sqMetersToHectares: sqMeters / 10000; sqMetersToSqKm: sqMeters / 1000000
SqMetersPerHectare == 10000
SqMetersPerSqKm == 1000000

None == << >>
Some(x) == << x >>

Abs(x) == IF x < 0 THEN -x ELSE x

P(a, b) == [lat |-> a, lng |-> b]

(***************************************************************************)
(* utils/mapUtils and the component's own copy of calculateArea            *)
(***************************************************************************)
\* toRad = deg * PI / 180, in the radian unit above: k grid steps are k units
toRad(deg) == deg

\* Math.sin on the model's angles (below 1e-7 rad): sin x = x - x^3/6 + ...
\* and x^3/6 is below 1e-17 of x, so the result is x itself
Sin(x) == x

\* points[(i + 1) % points.length], for the 1-based index i of p1
NextIndexNoWrap(i, n) == IF i = n THEN i ELSE i + 1
NextIndex(i, n) == (i % n) + 1

\* one pass of the loop body: (p2.lng - p1.lng) * (2 + sin p1.lat + sin p2.lat)
EdgeTerm(latlngs, i) ==
    LET p1 == latlngs[i]
        p2 == latlngs[NextIndex(i, Len(latlngs))]
    IN  (toRad(p2.lng) - toRad(p1.lng)) * (Two + Sin(toRad(p1.lat)) + Sin(toRad(p2.lat)))

\* the value of the accumulator after the first n passes of the loop
RECURSIVE SumEdges(_, _)
SumEdges(latlngs, n) ==
    IF n = 0 THEN 0 ELSE SumEdges(latlngs, n - 1) + EdgeTerm(latlngs, n)

\* Math.abs((area * EARTH_RADIUS * EARTH_RADIUS) / 2): the result is counted in
\* units of EARTH_RADIUS^2 / 2 square radian units (about 0.00155 m2), a positive
\* factor
FinalArea(sum) == Abs(sum)

calculateArea(latlngs) ==
    IF Len(latlngs) < 3 THEN 0 ELSE FinalArea(SumEdges(latlngs, Len(latlngs)))

\* coords1.every((coord, index) => latMatch && lngMatch)
PointMatchExact(c, o, tolerance) ==
    /\ c.lat = o.lat
    /\ c.lng = o.lng
PointMatchLoose(c, o, tolerance) ==
    /\ Abs(c.lat - o.lat) <= tolerance
    /\ Abs(c.lng - o.lng) <= tolerance
PointMatch(c, o, tolerance) ==
    /\ Abs(c.lat - o.lat) < tolerance
    /\ Abs(c.lng - o.lng) < tolerance

RECURSIVE EveryMatch(_, _, _, _)
EveryMatch(coords1, coords2, tolerance, i) ==
    IF i > Len(coords1) THEN TRUE
    ELSE IF ~PointMatch(coords1[i], coords2[i], tolerance) THEN FALSE
    ELSE EveryMatch(coords1, coords2, tolerance, i + 1)

areCoordinatesEqualAnyStart(coords1, coords2, tolerance) ==
    /\ Len(coords1) = Len(coords2)
    /\ \E k \in 0..Len(coords2) :
          EveryMatch(coords1,
                     [i \in 1..Len(coords2) |-> coords2[((i - 1 + k) % Len(coords2)) + 1]],
                     tolerance, 1)
areCoordinatesEqual(coords1, coords2, tolerance) ==
    IF Len(coords1) # Len(coords2) THEN FALSE
    ELSE EveryMatch(coords1, coords2, tolerance, 1)

\* existingFeatures.some((feature) => areCoordinatesEqual(feature.coordinates,
\* newCoordinates)), with the default tolerance
isDuplicateOrDegenerate(newCoordinates, existingFeatures) ==
    \/ Len(newCoordinates) < 3
    \/ \E k \in 1..Len(existingFeatures) :
           areCoordinatesEqual(existingFeatures[k].coordinates, newCoordinates, Tolerance)
isDuplicateFeature(newCoordinates, existingFeatures) ==
    \E k \in 1..Len(existingFeatures) :
        areCoordinatesEqual(existingFeatures[k].coordinates, newCoordinates, Tolerance)

\* Areas handed to formatArea are counted in 0.001 m2; m square meters are
SqMeters(m) == m * 1000

RECURSIVE Pow10(_)
Pow10(d) == IF d = 0 THEN 1 ELSE 10 * Pow10(d - 1)

\* the integer nearest to a / b, ties away from zero (b even, a >= 0 or a < 0)
RoundDiv(a, b) ==
    IF a < 0 THEN -((-a + b \div 2) \div b) ELSE (a + b \div 2) \div b

\* (x / unit).toFixed(digits) for x in 0.001 m2 and the unit in m2: the integer
\* n whose decimal notation with the point before the last `digits` digits is the
\* string toFixed returns
toFixed(x, unit, digits) == RoundDiv(x, SqMeters(unit) \div Pow10(digits))

\* sqMetersToHectares(sqMeters).toFixed(4), sqMetersToSqKm(sqMeters).toFixed(2)
sqMetersToHectares(x, digits) == toFixed(x, SqMetersPerHectare, digits)
sqMetersToSqKm(x, digits) == toFixed(x, SqMetersPerSqKm, digits)

\* formatArea: the string `${n} ${unit}` as its two parts and the number of
\* decimals n is written with
formatAreaInclusive(x) ==
    IF x <= SqMeters(HectareThreshold)
    THEN [n |-> toFixed(x, 1, 2), digits |-> 2, unit |-> "m2"]
    ELSE IF x <= SqMeters(SqKmThreshold)
    THEN [n |-> sqMetersToHectares(x, 4), digits |-> 4, unit |-> "hectares"]
    ELSE [n |-> sqMetersToSqKm(x, 2), digits |-> 2, unit |-> "km2"]
formatArea(x) ==
    IF x < SqMeters(HectareThreshold)
    THEN [n |-> toFixed(x, 1, 2), digits |-> 2, unit |-> "m2"]
    ELSE IF x < SqMeters(SqKmThreshold)
    THEN [n |-> sqMetersToHectares(x, 4), digits |-> 4, unit |-> "hectares"]
    ELSE [n |-> sqMetersToSqKm(x, 2), digits |-> 2, unit |-> "km2"]

(***************************************************************************)
(* Sequences used as inputs                                                *)
(***************************************************************************)
Reverse(s) == [i \in 1..Len(s) |-> s[Len(s) + 1 - i]]
\* the ring started k points later
Rotate(s, k) == [i \in 1..Len(s) |-> s[((i - 1 + k) % Len(s)) + 1]]

\* the shapes the plugin hands over: three corners pairwise a tolerance apart,
\* the same ring with its first corner moved by less than the tolerance, its
\* reversal, a rotation, and a ring of two points
BaseRing == << P(0, 0), P(0, Tolerance), P(Tolerance, 0) >>
NearRing == << P(Tolerance - 1, 0), P(0, Tolerance), P(Tolerance, 0) >>
ShortRing == << P(0, 0), P(0, Tolerance) >>
\* L.Rectangle: the four corners of its bounds
RectRing(sw, ne) ==
    << P(sw.lat, sw.lng), P(ne.lat, sw.lng), P(ne.lat, ne.lng), P(sw.lat, ne.lng) >>

PolygonRings ==
    { BaseRing, NearRing, Reverse(BaseRing), Rotate(BaseRing, 1), ShortRing }
PolylinePaths == { BaseRing, ShortRing }
MarkerPoints == { P(0, 0), P(Tolerance - 1, 0) }
RectangleRings ==
    { RectRing(P(0, 0), P(Tolerance, Tolerance)), RectRing(P(0, 0), P(Tolerance, Tolerance + 1)) }

\* a Leaflet layer as the plugin creates it: its class and what getLatLngs()
\* (getLatLng() for a marker) returns
Classes == { "Polygon", "Rectangle", "Polyline", "Marker" }
GeometriesOf(cls) ==
    CASE cls = "Polygon" -> { << r >> : r \in PolygonRings }
      [] cls = "Rectangle" -> { << r >> : r \in RectangleRings }
      [] cls = "Polyline" -> PolylinePaths
      [] OTHER -> MarkerPoints
\* the geometries shapes are drawn with; an edit may lead to any geometry of
\* the class
DrawnGeometriesOf(cls) ==
    CASE cls = "Polygon" -> { << r >> : r \in PolygonRings }
      [] cls = "Rectangle" -> { << RectRing(P(0, 0), P(Tolerance, Tolerance)) >> }
      [] cls = "Polyline" -> { BaseRing }
      [] OTHER -> { P(0, 0) }

\* layer instanceof L.X: Rectangle extends Polygon extends Polyline
InstanceOf(cls, base) ==
    CASE base = "Polygon" -> cls \in { "Polygon", "Rectangle" }
      [] base = "Polyline" -> cls \in { "Polyline", "Polygon", "Rectangle" }
      [] OTHER -> cls = base

(***************************************************************************)
(* State                                                                   *)
(***************************************************************************)
VARIABLES
    layers,            \* the Leaflet layers the plugin created, by identity 1, 2, ...
    onMap,             \* the layers currently on the map
    workAreaGroup,     \* workAreaLayerRef.current: the layers of the group
    recordGroup,       \* recordLayerRef.current
    clickSelects,      \* layers carrying the click handler of handleCreate
    drawnFeatures,     \* React state, as of the last render
    selectedFeatureId, \* React state
    drawMode,          \* React state
    pendingFeatures,   \* queued setDrawnFeatures updates, oldest first
    pendingSelected,   \* queued setSelectedFeatureId value: None or Some(value)
    pendingDrawMode,   \* queued setDrawMode value: None or Some(value)
    hFeatures,         \* drawnFeatures as closed over by the subscribed handlers
    hDrawMode,         \* drawMode as closed over by the subscribed handlers
    calls,             \* the calls of the callback props the last step made
    rejected,          \* the featureData of the creates turned down as duplicates
    edits,             \* the pm:edit events so far
    modeChanges,       \* the presses of a Drawing Mode button so far
    subscribed,        \* how many times the three pm handlers are subscribed on the map
    polygonLayer,      \* polygonLayerRef.current while it is in the work-area group
    georef,            \* the georeferencing capture: georefMode and the effect's closure
    clicks,            \* the map clicks since georefMode was entered or a path reported
    mapInstance,       \* mapInstanceRef.current: the number of the map, NoMap for null
    handlerMap,        \* the map the three pm handlers are subscribed on
    timers,            \* the maps whose 100 ms timer has not fired yet
    isInitialized,     \* the isInitialized state
    pendingInitialized,\* setIsInitialized(true) is queued
    arg, ret, pc       \* a call of a pure function: argument, result, position

vars == << layers, onMap, workAreaGroup, recordGroup, clickSelects, drawnFeatures,
           selectedFeatureId, drawMode, pendingFeatures, pendingSelected,
           pendingDrawMode, hFeatures, hDrawMode, calls, rejected, edits, modeChanges,
           subscribed, polygonLayer, georef, clicks, mapInstance, handlerMap, timers,
           isInitialized, pendingInitialized, arg, ret, pc >>

mapVars == << layers, onMap, workAreaGroup, recordGroup, clickSelects >>
reactVars == << drawnFeatures, selectedFeatureId, drawMode, hFeatures, hDrawMode >>
queueVars == << pendingFeatures, pendingSelected, pendingDrawMode >>
historyVars == << rejected, edits, modeChanges >>
propVars == << polygonLayer, georef, clicks >>
lifeVars == << mapInstance, handlerMap, timers, isInitialized, pendingInitialized >>
componentVars ==
    << mapVars, reactVars, queueVars, calls, historyVars, subscribed, propVars, lifeVars >>
callVars == << arg, ret, pc >>

\* onPolygonChange(polygon, areaSqMeters): areaSqMeters is None for null
PolygonChange(polygon, area) == [polygon |-> polygon, area |-> area]

\* the georeferencing effect before it has run: georefMode "none", and the
\* locals points and currentLayer and the georef layer group as the effect
\* starts them
GeorefOff ==
    [georefMode |-> "none", points |-> << >>, currentLayer |-> FALSE, georefLayer |-> << >>]

\* the component is mounted while its handlers are subscribed
Mounted == subscribed > 0

\* the handlers are subscribed on the map the plugin fires its events on
HandlersOnMap == handlerMap = mapInstance

\* one plugin event runs every subscribed handler: the updates they queue
Dispatch(update) == [k \in 1..subscribed |-> update]

\* mapInstanceRef.current === null
NoMap == 0

\* useState initial values, no layer drawn, handlers subscribed by the first
\* run of the effects
InitState ==
    /\ layers = << >>
    /\ onMap = {}
    /\ workAreaGroup = {}
    /\ recordGroup = {}
    /\ clickSelects = {}
    /\ drawnFeatures = << >>
    /\ selectedFeatureId = None
    /\ drawMode = "null"
    /\ pendingFeatures = << >>
    /\ pendingSelected = None
    /\ pendingDrawMode = None
    /\ hFeatures = << >>
    /\ hDrawMode = "null"
    /\ calls = << >>
    /\ rejected = {}
    /\ edits = 0
    /\ modeChanges = 0
    /\ subscribed = 1
    /\ polygonLayer = None
    /\ georef = GeorefOff
    /\ clicks = << >>

\* the component once the first map's timer has fired and that render is done
InitComponent ==
    /\ InitState
    /\ mapInstance = 1
    /\ handlerMap = 1
    /\ timers = {}
    /\ isInitialized = TRUE
    /\ pendingInitialized = FALSE

Init ==
    /\ InitComponent
    /\ arg = None
    /\ ret = None
    /\ pc = "idle"


(***************************************************************************)
(* The component: handlers of the plugin's events                          *)
(***************************************************************************)
\* a layer handleCreate took off the map: nothing refers to it any more
Discarded == [cls |-> "Discarded", geometry |-> << >>]

\* what handleCreate and handleEdit read from a layer, by its class:
\* getLatLngs()[0] of a polygon, getLatLngs() of a polyline, [getLatLng()] of a
\* marker, each mapped to {lat, lng}
CoordinatesOf(layer) ==
    IF InstanceOf(layer.cls, "Polygon") THEN layer.geometry[1]
    ELSE IF InstanceOf(layer.cls, "Polyline") THEN layer.geometry
    ELSE << layer.geometry >>

\* the branch of handleCreate's instanceof chain a layer takes
TypeOf(cls) ==
    IF InstanceOf(cls, "Polygon") THEN "polygon"
    ELSE IF InstanceOf(cls, "Polyline") THEN "polyline"
    ELSE IF InstanceOf(cls, "Marker") THEN "marker"
    ELSE "rectangle"

\* featureData of handleCreate; area is None where the literal has no area key
FeatureData(id, layer, targetLayerType) ==
    [id |-> id,
     type |-> TypeOf(layer.cls),
     area |-> IF TypeOf(layer.cls) \in { "polygon", "rectangle" }
              THEN Some(calculateArea(CoordinatesOf(layer))) ELSE None,
     coordinates |-> CoordinatesOf(layer),
     layer |-> id,
     layerType |-> targetLayerType]

\* drawMode === "record" ? "record" : "workArea"
TargetLayerTypeByPendingMode(mode) ==
    IF (IF pendingDrawMode = None THEN mode ELSE pendingDrawMode[1]) = "record"
    THEN "record" ELSE "workArea"
TargetLayerType(mode) == IF mode = "record" THEN "record" ELSE "workArea"

\* the existing features the duplicate check of handleCreate is run against:
\* the drawnFeatures of the render that subscribed the handler
ExistingFeaturesOfTargetLayer ==
    SelectSeq(hFeatures, LAMBDA f : f.layerType = TargetLayerType(hDrawMode))
ExistingFeatures == hFeatures

\* the state updates queued since the last render (a setSelectedFeatureId is
\* queued together with a setDrawnFeatures, or on its own by a click while
\* nothing else is queued)
PendingCount == Len(pendingFeatures) + (IF pendingDrawMode = None THEN 0 ELSE 1)

\* The plugin finishes a shape: it puts the new layer on the map and fires
\* pm:create with that layer (the plugin never fires it without one);
\* handleCreate runs to its end.
HandleCreate(cls, geometry) ==
    LET id == Len(layers) + 1
        layer == [cls |-> cls, geometry |-> geometry]
        targetLayerType == TargetLayerType(hDrawMode)
        featureData == FeatureData(id, layer, targetLayerType)
        duplicate == isDuplicateFeature(featureData.coordinates, ExistingFeatures)
    IN  /\ Mounted
        /\ HandlersOnMap
        /\ Len(layers) < MaxShapes
        /\ PendingCount < MaxPending
        /\ layers' = Append(layers, IF duplicate THEN Discarded ELSE layer)
        /\ clickSelects' = clickSelects \cup { id }
        /\ IF duplicate
           THEN /\ onMap' = onMap
                /\ calls' = << >>
                /\ rejected' = rejected \cup { featureData }
                /\ UNCHANGED << workAreaGroup, recordGroup, queueVars >>
           ELSE /\ onMap' = onMap \cup { id }
                /\ workAreaGroup' = IF targetLayerType = "workArea"
                                    THEN workAreaGroup \cup { id } ELSE workAreaGroup
                /\ recordGroup' = IF targetLayerType = "record"
                                  THEN recordGroup \cup { id } ELSE recordGroup
                /\ pendingFeatures' = pendingFeatures \o Dispatch(<< "append", featureData >>)
                /\ pendingSelected' = Some(Some(id))
                /\ calls' = IF featureData.type = "polygon" /\ targetLayerType = "workArea"
                            THEN << PolygonChange(featureData.coordinates, featureData.area) >>
                            ELSE << >>
                /\ UNCHANGED << pendingDrawMode, rejected >>
        /\ UNCHANGED << reactVars, edits, modeChanges, callVars, subscribed, lifeVars, propVars >>

\* The plugin moves the vertices of a layer on the map and fires pm:edit;
\* handleEdit queues its update.
HandleEdit(id, geometry) ==
    /\ HandlersOnMap
    /\ id \in onMap
    /\ PendingCount < MaxPending
    /\ edits < MaxEdits
    /\ geometry # layers[id].geometry
    /\ layers' = [layers EXCEPT ![id].geometry = geometry]
    /\ pendingFeatures' = pendingFeatures \o Dispatch(<< "edit", id >>)
    /\ calls' = << >>
    /\ edits' = edits + 1
    /\ UNCHANGED << onMap, workAreaGroup, recordGroup, clickSelects, reactVars,
                    pendingSelected, pendingDrawMode, rejected, modeChanges, callVars,
                    subscribed, lifeVars, propVars >>

\* The plugin's removal mode takes a layer off the map (it stays a member of
\* its layer group) and fires pm:remove; handleRemove queues its update.
HandleRemove(id) ==
    /\ HandlersOnMap
    /\ id \in onMap
    /\ PendingCount < MaxPending
    /\ onMap' = onMap \ { id }
    /\ pendingFeatures' = pendingFeatures \o Dispatch(<< "remove", id >>)
    /\ calls' = << >>
    /\ UNCHANGED << layers, workAreaGroup, recordGroup, clickSelects, reactVars,
                    pendingSelected, pendingDrawMode, historyVars, callVars,
                    subscribed, lifeVars, propVars >>


(***************************************************************************)
(* The component: buttons                                                  *)
(***************************************************************************)
\* "Clear All": enabled while drawnFeatures.length > 0
clearAllDrawnFeatures ==
    /\ Len(drawnFeatures) > 0
    /\ PendingCount < MaxPending
    /\ workAreaGroup' = {}
    /\ onMap' = onMap \ workAreaGroup
    /\ pendingFeatures' = Append(pendingFeatures, << "set", << >> >>)
    /\ pendingSelected' = Some(None)
    /\ calls' = << PolygonChange(<< >>, None) >>
    /\ polygonLayer' = None
    /\ UNCHANGED << layers, recordGroup, clickSelects, reactVars, pendingDrawMode,
                    historyVars, callVars, subscribed, lifeVars, georef, clicks >>

\* "Clear Work Areas" / "Clear Records": enabled while drawnFeatures holds a
\* feature of that layerType
clearLayerFeatures(layerType) ==
    /\ \E k \in 1..Len(drawnFeatures) : drawnFeatures[k].layerType = layerType
    /\ PendingCount < MaxPending
    /\ IF layerType = "workArea"
       THEN /\ workAreaGroup' = {}
            /\ onMap' = onMap \ workAreaGroup
            /\ polygonLayer' = None
            /\ UNCHANGED recordGroup
       ELSE /\ recordGroup' = {}
            /\ onMap' = onMap \ recordGroup
            /\ UNCHANGED << workAreaGroup, polygonLayer >>
    /\ pendingFeatures' = Append(pendingFeatures, << "filter", layerType >>)
    /\ pendingSelected' = Some(None)
    /\ calls' = IF layerType = "workArea" THEN << PolygonChange(<< >>, None) >> ELSE << >>
    /\ UNCHANGED << layers, clickSelects, reactVars, pendingDrawMode, historyVars,
                    callVars, subscribed, lifeVars, georef, clicks >>

\* the three Drawing Mode buttons: activateDrawMode(drawMode === m ? null : m)
activateDrawMode(button) ==
    LET mode == IF drawMode = button THEN "null" ELSE button
    IN  /\ Mounted
        /\ pendingDrawMode = None
        /\ PendingCount < MaxPending
        /\ modeChanges < MaxModeChanges
        /\ modeChanges' = modeChanges + 1
        /\ pendingDrawMode' = Some(mode)
        /\ calls' = << >>
        /\ UNCHANGED << mapVars, reactVars, pendingFeatures, pendingSelected,
                        rejected, edits, callVars, subscribed, lifeVars, propVars >>

\* a click on a shape on the map: the listener handleCreate put on its layer
LayerClick(id) ==
    /\ Mounted
    /\ id \in onMap \cap clickSelects
    /\ PendingCount = 0 /\ pendingSelected = None
    /\ pendingSelected' = Some(Some(id))
    /\ calls' = << >>
    /\ UNCHANGED << mapVars, reactVars, pendingFeatures, pendingDrawMode, historyVars,
                    callVars, subscribed, lifeVars, propVars >>

\* a click on an entry of the feature list: zoomToFeature(feature)
zoomToFeature(feature) ==
    /\ Mounted
    /\ PendingCount = 0 /\ pendingSelected = None
    /\ pendingSelected' = Some(Some(feature.id))
    /\ calls' = << >>
    /\ UNCHANGED << mapVars, reactVars, pendingFeatures, pendingDrawMode, historyVars,
                    callVars, subscribed, lifeVars, propVars >>

(***************************************************************************)
(* React: a render applies the queued updates in order and re-runs the     *)
(* effect that subscribes the handlers                                     *)
(***************************************************************************)
\* the updater of handleEdit on one feature, reading the layer as it is when the
\* updater runs
EditedFeatureKeepsArea(feature, layerId) ==
    IF feature.layer # layerId THEN feature
    ELSE [feature EXCEPT !.coordinates = CoordinatesOf(layers[layerId])]
EditedFeatureAlwaysArea(feature, layerId) ==
    IF feature.layer # layerId THEN feature
    ELSE [feature EXCEPT !.area = Some(calculateArea(CoordinatesOf(layers[layerId]))),
                         !.coordinates = CoordinatesOf(layers[layerId])]
EditedFeature(feature, layerId) ==
    IF feature.layer # layerId THEN feature
    ELSE LET layer == layers[layerId]
         IN  IF InstanceOf(layer.cls, "Polygon") \/ InstanceOf(layer.cls, "Rectangle")
             THEN [feature EXCEPT !.area = Some(calculateArea(CoordinatesOf(layer))),
                                  !.coordinates = CoordinatesOf(layer)]
             ELSE [feature EXCEPT !.coordinates = CoordinatesOf(layer)]

\* the updater of clearLayerFeatures: prev.filter((f) => f.layerType !== layerType)
LayerFilterClearsAll(prev, layerType) == << >>
LayerFilter(prev, layerType) ==
    SelectSeq(prev, LAMBDA f : f.layerType # layerType)

\* the updater of handleRemove: prev.filter((f) => f.layer !== layer)
RemoveFilterDropsFirst(prev, layerId) ==
    IF prev = << >> THEN prev ELSE Tail(prev)
RemoveFilter(prev, layerId) ==
    SelectSeq(prev, LAMBDA f : f.layer # layerId)

\* one queued update applied to prev: the new value and the callbacks made
ApplyUpdateChecked(prev, update) ==
    CASE update[1] = "append" ->
            [features |-> Append(prev, update[2]), calls |-> << >>]
      [] update[1] = "edit" ->
            LET edited == [k \in 1..Len(prev) |-> EditedFeature(prev[k], update[2])]
                clash == \E i, j \in 1..Len(edited) :
                            /\ i # j
                            /\ edited[i].layer = update[2]
                            /\ areCoordinatesEqual(edited[i].coordinates,
                                                   edited[j].coordinates, Tolerance)
            IN  [features |-> IF clash THEN prev ELSE edited, calls |-> << >>]
      [] update[1] = "remove" ->
            LET filtered == RemoveFilter(prev, update[2])
            IN  [features |-> filtered,
                 calls |-> IF Len(filtered) = 0
                           THEN << PolygonChange(<< >>, None) >> ELSE << >>]
      [] update[1] = "filter" ->
            [features |-> LayerFilter(prev, update[2]), calls |-> << >>]
      [] OTHER -> [features |-> update[2], calls |-> << >>]
ApplyUpdate(prev, update) ==
    CASE update[1] = "append" ->
            [features |-> Append(prev, update[2]), calls |-> << >>]
      [] update[1] = "edit" ->
            [features |-> [k \in 1..Len(prev) |-> EditedFeature(prev[k], update[2])],
             calls |-> << >>]
      [] update[1] = "remove" ->
            LET filtered == RemoveFilter(prev, update[2])
            IN  [features |-> filtered,
                 calls |-> IF Len(filtered) = 0
                           THEN << PolygonChange(<< >>, None) >> ELSE << >>]
      [] update[1] = "filter" ->
            [features |-> LayerFilter(prev, update[2]), calls |-> << >>]
      [] OTHER -> [features |-> update[2], calls |-> << >>]

\* the cleanup of the effect that subscribes the handlers: map.off of the three
CleanupKeepsHandlers(n) == n
Cleanup(n) == IF n > 0 THEN n - 1 ELSE 0

\* the body of that effect: map.on of the three
Subscribe(n) == n + 1

RECURSIVE ApplyUpdates(_, _, _)
ApplyUpdates(prev, made, updates) ==
    IF updates = << >> THEN [features |-> prev, calls |-> made]
    ELSE LET r == ApplyUpdate(prev, Head(updates))
         IN  ApplyUpdates(r.features, made \o r.calls, Tail(updates))

Render ==
    LET r == ApplyUpdates(drawnFeatures, << >>, pendingFeatures)
        mode == IF pendingDrawMode = None THEN drawMode ELSE pendingDrawMode[1]
    IN  /\ \/ pendingFeatures # << >>
           \/ pendingSelected # None
           \/ pendingDrawMode # None
        /\ drawnFeatures' = r.features
        /\ selectedFeatureId' = IF pendingSelected = None THEN selectedFeatureId
                                ELSE pendingSelected[1]
        /\ drawMode' = mode
        /\ pendingFeatures' = << >>
        /\ pendingSelected' = None
        /\ pendingDrawMode' = None
        /\ hFeatures' = r.features
        /\ hDrawMode' = mode
        /\ calls' = r.calls
        /\ subscribed' = Subscribe(Cleanup(subscribed))
        /\ UNCHANGED << mapVars, historyVars, callVars, propVars, lifeVars >>

\* React unmounts the component: every effect is cleaned up (the handlers are
\* unsubscribed, the map and its layers are removed) and the state is dropped
Unmount ==
    /\ Mounted
    /\ layers' = << >>
    /\ onMap' = {}
    /\ workAreaGroup' = {}
    /\ recordGroup' = {}
    /\ clickSelects' = {}
    /\ drawnFeatures' = << >>
    /\ selectedFeatureId' = None
    /\ drawMode' = "null"
    /\ pendingFeatures' = << >>
    /\ pendingSelected' = None
    /\ pendingDrawMode' = None
    /\ hFeatures' = << >>
    /\ hDrawMode' = "null"
    /\ calls' = << >>
    /\ rejected' = {}
    /\ edits' = 0
    /\ modeChanges' = 0
    /\ subscribed' = Cleanup(subscribed)
    /\ polygonLayer' = None
    /\ georef' = GeorefOff
    /\ clicks' = << >>
    /\ mapInstance' = NoMap
    /\ handlerMap' = NoMap
    /\ isInitialized' = FALSE
    /\ pendingInitialized' = FALSE
    /\ UNCHANGED << timers, callVars >>

Next ==
    \/ \E cls \in Classes : \E geometry \in DrawnGeometriesOf(cls) : HandleCreate(cls, geometry)
    \/ \E id \in onMap : \E geometry \in GeometriesOf(layers[id].cls) : HandleEdit(id, geometry)
    \/ \E id \in onMap : HandleRemove(id)
    \/ clearAllDrawnFeatures
    \/ \E layerType \in { "workArea", "record" } : clearLayerFeatures(layerType)
    \/ \E button \in { "workArea", "record", "edit" } : activateDrawMode(button)
    \/ \E id \in onMap : LayerClick(id)
    \/ \E k \in 1..Len(drawnFeatures) : zoomToFeature(drawnFeatures[k])
    \/ Render
    \/ Unmount

Spec == Init /\ [][Next]_vars

(***************************************************************************)
(* Download GeoJSON, with the polygon prop drawn into the work-area group  *)
(***************************************************************************)
\* a GeoJSON position of a {lat, lng}
PositionLatLng(c) == << c.lat, c.lng >>
Position(c) == << c.lng, c.lat >>
Positions(coordinates) == [k \in 1..Len(coordinates) |-> Position(coordinates[k])]

\* layer.toGeoJSON() of a Leaflet layer: the geometry by the layer's class, a
\* polygon's ring closed with its first position
toGeoJSON(layer) ==
    IF InstanceOf(layer.cls, "Polygon")
    THEN [type |-> "Polygon",
          coordinates |-> << IF layer.geometry[1] = << >> THEN << >>
                             ELSE Append(Positions(layer.geometry[1]),
                                         Position(layer.geometry[1][1])) >>]
    ELSE IF InstanceOf(layer.cls, "Polyline")
    THEN [type |-> "LineString", coordinates |-> Positions(layer.geometry)]
    ELSE [type |-> "Point", coordinates |-> Position(layer.geometry)]

\* polygonLayerRef.current, told apart from the drawn layers 1, 2, ...
PolygonLayerId == 0

\* the members of a layer group in the order eachLayer visits them
Members(group) == SelectSeq([k \in 1..Len(layers) |-> k], LAMBDA id : id \in group)

\* the layers of workAreaLayerRef.current: the shapes put there by handleCreate
\* and the polygon the polygon prop is drawn as (its place among them is not
\* modelled: it is listed last)
WorkAreaLayers ==
    [k \in 1..Len(Members(workAreaGroup)) |->
        [layer |-> Members(workAreaGroup)[k], leaflet |-> layers[Members(workAreaGroup)[k]]]]
    \o (IF polygonLayer = None THEN << >>
        ELSE << [layer |-> PolygonLayerId,
                 leaflet |-> [cls |-> "Polygon", geometry |-> << polygonLayer[1] >>]] >>)

\* exportToGeoJSON(layerGroup): one feature for each layer of the group
exportToGeoJSON(groupLayers) ==
    [k \in 1..Len(groupLayers) |->
        [layer |-> groupLayers[k].layer, geometry |-> toGeoJSON(groupLayers[k].leaflet)]]

\* the component until the file is downloaded
Idle == pc = "idle"

\* the parent passes another polygon prop: the effect takes the previous
\* polygon layer out of the work-area group and draws the new one into it
PolygonProp(polygon) ==
    /\ Mounted
    /\ isInitialized
    /\ Idle
    /\ PendingCount = 0 /\ pendingSelected = None
    /\ polygonLayer # (IF Len(polygon) > 0 THEN Some(polygon) ELSE None)
    /\ polygonLayer' = IF Len(polygon) > 0 THEN Some(polygon) ELSE None
    /\ calls' = << >>
    /\ UNCHANGED << mapVars, reactVars, queueVars, historyVars, subscribed, lifeVars, georef,
                    clicks, callVars >>

\* "Download GeoJSON": rendered enabled while the work-area group holds a layer
downloadDrawnGeoJSON ==
    /\ Mounted
    /\ Idle
    /\ PendingCount = 0 /\ pendingSelected = None
    /\ workAreaGroup # {}
    /\ ret' = Some(exportToGeoJSON(WorkAreaLayers))
    /\ pc' = "downloaded"
    /\ UNCHANGED << componentVars, arg >>

NextExport ==
    \/ \E cls \in Classes : \E geometry \in DrawnGeometriesOf(cls) :
          Idle /\ HandleCreate(cls, geometry)
    \/ \E id \in onMap : \E geometry \in GeometriesOf(layers[id].cls) :
          Idle /\ HandleEdit(id, geometry)
    \/ \E id \in onMap : Idle /\ HandleRemove(id)
    \/ Idle /\ clearAllDrawnFeatures
    \/ \E layerType \in { "workArea", "record" } : Idle /\ clearLayerFeatures(layerType)
    \/ \E button \in { "workArea", "record", "edit" } : Idle /\ activateDrawMode(button)
    \/ \E id \in onMap : Idle /\ LayerClick(id)
    \/ \E k \in 1..Len(drawnFeatures) : Idle /\ zoomToFeature(drawnFeatures[k])
    \/ Idle /\ Render
    \/ Idle /\ Unmount
    \/ \E polygon \in { << >>, BaseRing } : PolygonProp(polygon)
    \/ downloadDrawnGeoJSON

SpecExport == Init /\ [][NextExport]_vars

(***************************************************************************)
(* The life of the map: the effect that creates it runs again whenever one *)
(* of defaultCenter, defaultZoom, defaultBasemap, mode, enableDrop,        *)
(* onDropFilesAt changes, and defaultCenter defaults to a new object in    *)
(* every render                                                            *)
(***************************************************************************)
\* the component as it is mounted: the first map exists, its timer runs, the
\* handlers are subscribed on it
InitMount ==
    /\ InitState
    /\ mapInstance = 1
    /\ handlerMap = 1
    /\ timers = { 1 }
    /\ isInitialized = FALSE
    /\ pendingInitialized = FALSE
    /\ arg = None
    /\ ret = None
    /\ pc = "idle"

\* the callback of setTimeout(..., 100) of map m runs: m.invalidateSize() and
\* setIsInitialized(true); nothing clears the timer
TimerFires(m) ==
    /\ m \in timers
    /\ timers' = timers \ { m }
    /\ pendingInitialized' = (pendingInitialized \/ (Mounted /\ ~isInitialized))
    /\ calls' = << >>
    /\ UNCHANGED << mapVars, reactVars, queueVars, historyVars, subscribed, propVars,
                    mapInstance, handlerMap, isInitialized, callVars >>

\* A render and the effects after it.  recreate: a dependency of the effect
\* that creates the map changed; newCallback: the parent passed another
\* onPolygonChange function.  The cleanup of the map effect removes the map;
\* its body makes a new map with new, empty layer groups and starts a timer.
\* The effect that subscribes the handlers runs again only if drawnFeatures,
\* drawMode or onPolygonChange changed.  The effect of the records prop runs
\* again when isInitialized changes and clears the record layer group.
RenderAndEffects(recreate, newCallback) ==
    LET r == ApplyUpdates(drawnFeatures, << >>, pendingFeatures)
        mode == IF pendingDrawMode = None THEN drawMode ELSE pendingDrawMode[1]
        initialized == isInitialized \/ pendingInitialized
        resubscribe == pendingFeatures # << >> \/ mode # drawMode \/ newCallback
        recordsEffect == initialized # isInitialized
        created == mapInstance + 1
    IN  /\ Mounted
        /\ \/ pendingFeatures # << >>
           \/ pendingSelected # None
           \/ pendingDrawMode # None
           \/ pendingInitialized
           \/ recreate
           \/ newCallback
        /\ recreate => mapInstance < MaxMaps
        /\ drawnFeatures' = r.features
        /\ selectedFeatureId' = IF pendingSelected = None THEN selectedFeatureId
                                ELSE pendingSelected[1]
        /\ drawMode' = mode
        /\ isInitialized' = initialized
        /\ pendingFeatures' = << >>
        /\ pendingSelected' = None
        /\ pendingDrawMode' = None
        /\ pendingInitialized' = FALSE
        /\ hFeatures' = r.features
        /\ hDrawMode' = mode
        /\ calls' = r.calls
        /\ mapInstance' = IF recreate THEN created ELSE mapInstance
        /\ timers' = IF recreate THEN timers \cup { created } ELSE timers
        /\ workAreaGroup' = IF recreate THEN {} ELSE workAreaGroup
        /\ recordGroup' = IF recreate \/ recordsEffect THEN {} ELSE recordGroup
        /\ onMap' = IF recreate THEN {}
                    ELSE IF recordsEffect THEN onMap \ recordGroup ELSE onMap
        /\ polygonLayer' = IF recreate THEN None ELSE polygonLayer
        /\ subscribed' = IF resubscribe THEN Subscribe(Cleanup(subscribed)) ELSE subscribed
        /\ handlerMap' = IF resubscribe THEN mapInstance' ELSE handlerMap
        /\ UNCHANGED << layers, clickSelects, historyVars, georef, clicks, callVars >>

\* the parent passes another records prop: the effect clears the record layer
\* group and draws the records into it
RecordsProp ==
    /\ Mounted
    /\ isInitialized
    /\ PendingCount = 0 /\ pendingSelected = None /\ ~pendingInitialized
    /\ recordGroup # {}
    /\ recordGroup' = {}
    /\ onMap' = onMap \ recordGroup
    /\ calls' = << >>
    /\ UNCHANGED << layers, workAreaGroup, clickSelects, reactVars, queueVars, historyVars,
                    subscribed, propVars, lifeVars, callVars >>

\* the plugin finishes a shape on a map that no handler is subscribed on: the
\* layer is on the map and nothing else happens
CreateUnhandled(cls, geometry) ==
    /\ Mounted
    /\ ~HandlersOnMap
    /\ Len(layers) < MaxShapes
    /\ layers' = Append(layers, [cls |-> cls, geometry |-> geometry])
    /\ onMap' = onMap \cup { Len(layers) + 1 }
    /\ calls' = << >>
    /\ UNCHANGED << workAreaGroup, recordGroup, clickSelects, reactVars, queueVars,
                    historyVars, subscribed, propVars, lifeVars, callVars >>

\* the shapes drawn while the map comes and goes: a polygon, a marker
ShapesDrawn ==
    { [cls |-> "Polygon", geometry |-> << BaseRing >>],
      [cls |-> "Marker", geometry |-> P(0, 0)] }

NextMap ==
    \/ \E shape \in ShapesDrawn : HandleCreate(shape.cls, shape.geometry)
    \/ \E shape \in ShapesDrawn : CreateUnhandled(shape.cls, shape.geometry)
    \/ \E id \in onMap : HandleRemove(id)
    \/ clearAllDrawnFeatures
    \/ \E layerType \in { "workArea", "record" } : clearLayerFeatures(layerType)
    \/ \E button \in { "workArea", "record", "edit" } : activateDrawMode(button)
    \/ \E m \in 1..MaxMaps : TimerFires(m)
    \/ \E recreate, newCallback \in BOOLEAN : RenderAndEffects(recreate, newCallback)
    \/ RecordsProp
    \/ Unmount

SpecMap == InitMount /\ [][NextMap]_vars

(***************************************************************************)
(* Georeferencing capture (mode "georef"): the effect that subscribes      *)
(* handleClick and handleDblClick while georefMode is not "none"           *)
(***************************************************************************)
\* the results handed to onGeorefComplete
GeorefPoint(latlng) == [type |-> "Point", point |-> latlng]
GeorefPath(georefMode, points) ==
    [type |-> IF georefMode = "line" THEN "LineString" ELSE "Polygon", path |-> points]

\* the positions the user clicks
ClickPositions == { P(0, 0), P(0, Tolerance) }

\* what the effect and its two handlers leave alone: all but the georef layer
\* group, the locals points and currentLayer, and the callback they call
GeorefFrameClearsRegistry ==
    /\ pendingFeatures' = Append(pendingFeatures, << "set", << >> >>)
    /\ UNCHANGED << mapVars, reactVars, pendingSelected, pendingDrawMode, historyVars,
                    subscribed, lifeVars, polygonLayer, callVars >>
GeorefFrame ==
    UNCHANGED << mapVars, reactVars, queueVars, historyVars, subscribed, lifeVars,
                 polygonLayer, callVars >>

\* the effect starts: georefLayer.clearLayers(), currentLayer = null, points = []
GeorefStarted(georefMode) ==
    [georefMode |-> georefMode, points |-> << >>, currentLayer |-> FALSE,
     georefLayer |-> << >>]

\* the parent passes another georefMode: the cleanup of the effect clears the
\* georef layer group, the effect runs again
SetGeorefMode(georefMode) ==
    /\ Mounted
    /\ georefMode # georef.georefMode
    /\ georef' = GeorefStarted(georefMode)
    /\ clicks' = << >>
    /\ calls' = << >>
    /\ GeorefFrame

\* the parent passes another georefColor or another onGeorefComplete function
\* while a capture is on: cleanup, and the effect runs again
GeorefPropsChange ==
    /\ Mounted
    /\ georef.georefMode # "none"
    /\ georef' = GeorefStarted(georef.georefMode)
    /\ calls' = << >>
    /\ UNCHANGED clicks
    /\ GeorefFrame

\* georefLayer without currentLayer, which is the layer added last
WithoutCurrentLayer ==
    IF georef.currentLayer
    THEN SubSeq(georef.georefLayer, 1, Len(georef.georefLayer) - 1)
    ELSE georef.georefLayer

\* a click on the map: handleClick
HandleClick(latlng) ==
    /\ Mounted
    /\ georef.georefMode # "none"
    /\ Len(clicks) < MaxClicks
    /\ Len(WithoutCurrentLayer) < MaxGeorefLayers
    /\ clicks' = Append(clicks, latlng)
    /\ IF georef.georefMode = "point"
       THEN /\ georef' = [georef EXCEPT
                            !.georefLayer = Append(@, [kind |-> "marker", latlngs |-> << latlng >>])]
            /\ calls' = << GeorefPoint(latlng) >>
       ELSE /\ georef' = [georef EXCEPT
                            !.points = Append(@, latlng),
                            !.currentLayer = TRUE,
                            !.georefLayer =
                                Append(WithoutCurrentLayer,
                                       [kind |-> IF georef.georefMode = "line"
                                                 THEN "polyline" ELSE "polygon",
                                        latlngs |-> Append(georef.points, latlng)])]
            /\ calls' = << >>
    /\ GeorefFrame

\* a double click on the map: handleDblClick
HandleDblClick ==
    /\ Mounted
    /\ georef.georefMode # "none"
    /\ IF georef.georefMode \in { "line", "polygon" } /\ Len(georef.points) > 1
       THEN /\ calls' = << GeorefPath(georef.georefMode, georef.points) >>
            /\ georef' = [georef EXCEPT !.points = << >>, !.currentLayer = FALSE]
            /\ clicks' = << >>
       ELSE /\ calls' = << >>
            /\ UNCHANGED << georef, clicks >>
    /\ GeorefFrame

\* the capture next to a registry that shapes are drawn into
NextGeoref ==
    \/ \E georefMode \in { "none", "point", "line", "polygon" } : SetGeorefMode(georefMode)
    \/ GeorefPropsChange
    \/ \E latlng \in ClickPositions : HandleClick(latlng)
    \/ HandleDblClick
    \/ \E geometry \in DrawnGeometriesOf("Polygon") : HandleCreate("Polygon", geometry)
    \/ Render

SpecGeoref == Init /\ [][NextGeoref]_vars

(***************************************************************************)
(* The pure functions of utils/mapUtils called on their own                *)
(***************************************************************************)
Grid == { P(a, b) : a \in 0..MaxCoord, b \in 0..MaxCoord }
SeqsUpTo(S, n) == UNION { [1..m -> S] : m \in 0..n }

\* areCoordinatesEqual(coords1, coords2, tolerance)
EqInputs ==
    [coords1 : SeqsUpTo(Grid, 2), coords2 : SeqsUpTo(Grid, 2), tolerance : 1..Tolerance]
InitEq ==
    /\ InitComponent
    /\ arg \in EqInputs
    /\ ret = None
    /\ pc = "call"
CallAreCoordinatesEqual ==
    /\ pc = "call"
    /\ ret' = Some(areCoordinatesEqual(arg.coords1, arg.coords2, arg.tolerance))
    /\ pc' = "done"
    /\ UNCHANGED << componentVars, arg >>
SpecEq == InitEq /\ [][CallAreCoordinatesEqual]_vars

\* calculateArea(latlngs)
InitArea ==
    /\ InitComponent
    /\ arg \in SeqsUpTo(Grid, MaxRing)
    /\ ret = None
    /\ pc = "call"
CallCalculateArea ==
    /\ pc = "call"
    /\ ret' = Some(calculateArea(arg))
    /\ pc' = "done"
    /\ UNCHANGED << componentVars, arg >>
SpecArea == InitArea /\ [][CallCalculateArea]_vars

\* formatArea(sqMeters), sqMeters a non-negative area near zero or near a
\* threshold
FmtInputs ==
    { x \in { SqMeters(c) + d : c \in { 0, HectareThreshold, SqKmThreshold },
                                d \in (0 - FmtWindow)..FmtWindow } : x >= 0 }
InitFmt ==
    /\ InitComponent
    /\ arg \in FmtInputs
    /\ ret = None
    /\ pc = "call"
CallFormatArea ==
    /\ pc = "call"
    /\ ret' = Some(formatArea(arg))
    /\ pc' = "done"
    /\ UNCHANGED << componentVars, arg >>
SpecFmt == InitFmt /\ [][CallFormatArea]_vars

\* copyFeatureGeoJSON(feature): the object written to the clipboard
copyFeatureGeoJSON(feature) ==
    [type |-> "Feature",
     geometry |->
        [type |-> IF feature.type = "polygon" \/ feature.type = "rectangle" THEN "Polygon"
                  ELSE IF feature.type = "polyline" THEN "LineString"
                  ELSE "Point",
         coordinates |-> IF feature.type = "marker" THEN Position(feature.coordinates[1])
                         ELSE IF feature.type = "polygon" \/ feature.type = "rectangle"
                         THEN << Positions(feature.coordinates) >>
                         ELSE Positions(feature.coordinates)],
     properties |-> [area |-> feature.area]]

\* the entries a registry can show a Copy JSON button for: a marker has one
\* coordinate, the other kinds one or more; an area as handleCreate sets it
CopyFeature(type, coordinates) ==
    [id |-> 1,
     type |-> type,
     area |-> IF type \in { "polygon", "rectangle" }
              THEN Some(calculateArea(coordinates)) ELSE None,
     coordinates |-> coordinates,
     layer |-> 1,
     layerType |-> "workArea"]
CopyInputs ==
    { CopyFeature(type, coordinates) :
        type \in { "polygon", "rectangle", "polyline" },
        coordinates \in SeqsUpTo(Grid, MaxRing) \ { << >> } }
    \cup { CopyFeature("marker", << p >>) : p \in Grid }
InitCopy ==
    /\ InitComponent
    /\ arg \in CopyInputs
    /\ ret = None
    /\ pc = "call"
CallCopyFeatureGeoJSON ==
    /\ pc = "call"
    /\ ret' = Some(copyFeatureGeoJSON(arg))
    /\ pc' = "done"
    /\ UNCHANGED << componentVars, arg >>
SpecCopy == InitCopy /\ [][CallCopyFeatureGeoJSON]_vars

(***************************************************************************)
(* Properties                                                              *)
(***************************************************************************)
\* two coordinate sequences are equal: same length, and at every index the
\* latitudes and the longitudes each differ by less than 0.000001
SameCoordinates(a, b) ==
    /\ Len(a) = Len(b)
    /\ \A i \in 1..Len(a) :
          /\ Abs(a[i].lat - b[i].lat) < Tolerance
          /\ Abs(a[i].lng - b[i].lng) < Tolerance

\* the coordinate sequence a create event carries, by the class of its shape
Carried(cls, geometry) ==
    CASE cls \in { "Polygon", "Rectangle" } -> geometry[1]
      [] cls = "Polyline" -> geometry
      [] OTHER -> << geometry >>

EqualToAnEntry(coordinates) ==
    \E k \in 1..Len(drawnFeatures) : SameCoordinates(drawnFeatures[k].coordinates, coordinates)

\* C1: in every state reached by create, remove and clear events without an
\* edit event, creates delivered back-to-back before a render included, no two
\* entries of drawnFeatures have equal coordinate sequences.
C1_NoTwoEqualEntries ==
    edits = 0 =>
        \A i, j \in 1..Len(drawnFeatures) :
            i < j => ~SameCoordinates(drawnFeatures[i].coordinates, drawnFeatures[j].coordinates)

\* C2: a create event whose coordinate sequence is equal to the coordinates of
\* an entry of drawnFeatures is rejected: drawnFeatures is left as it is and no
\* update of it is queued, the shape is not on the map, it is in no layer
\* group, and onPolygonChange is not called.
C2_DuplicateRejected ==
    [][\A cls \in Classes : \A geometry \in DrawnGeometriesOf(cls) :
          (HandleCreate(cls, geometry) /\ EqualToAnEntry(Carried(cls, geometry)))
          => LET id == Len(layers) + 1
             IN  /\ drawnFeatures' = drawnFeatures
                 /\ pendingFeatures' = pendingFeatures
                 /\ pendingSelected' = pendingSelected
                 /\ id \notin onMap'
                 /\ id \notin workAreaGroup' \cup recordGroup'
                 /\ calls' = << >>]_vars

\* a second shape, equal to the only entry within the tolerance without being
\* identical to it, has been rejected
C2_Witness ==
    /\ Len(drawnFeatures) = 1
    /\ pendingFeatures = << >>
    /\ \E f \in rejected :
          /\ f.coordinates # drawnFeatures[1].coordinates
          /\ SameCoordinates(f.coordinates, drawnFeatures[1].coordinates)
          /\ f.id \notin onMap \cup workAreaGroup \cup recordGroup

\* C5: a create event is checked against every entry of drawnFeatures, whatever
\* the entry's layerType and type: it is rejected if and only if at least one
\* entry has equal coordinates.
C5_RejectedIffSomeEntryEqual ==
    [][\A cls \in Classes : \A geometry \in DrawnGeometriesOf(cls) :
          HandleCreate(cls, geometry)
          => LET id == Len(layers) + 1
                 isRejected == id \notin onMap' /\ pendingFeatures' = pendingFeatures
                 isAccepted == /\ id \in onMap'
                               /\ Len(pendingFeatures') = Len(pendingFeatures) + 1
                               /\ pendingFeatures'[Len(pendingFeatures')][1] = "append"
             IN  /\ isRejected \/ isAccepted
                 /\ isRejected <=> EqualToAnEntry(Carried(cls, geometry))]_vars

\* a create for one layer has been rejected for an entry of the other layer
\* and of another type
C5_Witness ==
    \E f \in rejected : \E k \in 1..Len(drawnFeatures) :
        /\ SameCoordinates(drawnFeatures[k].coordinates, f.coordinates)
        /\ drawnFeatures[k].layerType # f.layerType
        /\ drawnFeatures[k].type # f.type
        /\ drawnFeatures[k].id < f.id

\* the layers whose pm:edit updates are queued
EditedLayers == { pendingFeatures[u][2] : u \in { v \in 1..Len(pendingFeatures) :
                                                    pendingFeatures[v][1] = "edit" } }
OnlyEditsQueued ==
    /\ pendingFeatures # << >>
    /\ \A u \in 1..Len(pendingFeatures) : pendingFeatures[u][1] = "edit"

\* C3: once the update of an edit event is applied, the entry of an edited
\* polygon or rectangle shape has the shape's new ring as its coordinates and
\* calculateArea of that ring as its area; the edit leaves the id, type,
\* layerType and position of every entry as they were.
C3_EditReplacesRingAndArea ==
    [][Render =>
          /\ \A k \in 1..Len(drawnFeatures') :
                LET f == drawnFeatures'[k]
                IN  (f.layer \in EditedLayers /\ layers[f.layer].cls \in { "Polygon", "Rectangle" })
                    => LET R2 == layers[f.layer].geometry[1]
                       IN  /\ f.coordinates = R2
                           /\ f.area = Some(calculateArea(R2))
          /\ OnlyEditsQueued =>
                /\ Len(drawnFeatures') = Len(drawnFeatures)
                /\ \A k \in 1..Len(drawnFeatures) :
                      /\ drawnFeatures'[k].id = drawnFeatures[k].id
                      /\ drawnFeatures'[k].type = drawnFeatures[k].type
                      /\ drawnFeatures'[k].layerType = drawnFeatures[k].layerType
                      /\ drawnFeatures'[k].layer = drawnFeatures[k].layer]_vars

\* the entry of a rectangle edited to a ring no create event carries, with the
\* area of that ring, which differs from the area it was created with
C3_Witness ==
    /\ edits = 1
    /\ pendingFeatures = << >>
    /\ \E k \in 1..Len(drawnFeatures) :
          LET f == drawnFeatures[k]
              R2 == RectRing(P(0, 0), P(Tolerance, Tolerance + 1))
          IN  /\ f.coordinates = R2
              /\ f.area = Some(calculateArea(R2))
              /\ f.area # Some(calculateArea(RectRing(P(0, 0), P(Tolerance, Tolerance))))
              /\ f.id = 1

\* C4: an edit event runs no duplicate detection: the edit is accepted even if
\* it makes the entry's coordinates equal to those of another entry, every entry
\* stays in the registry, and no edit event changes the registry's length.
C4_EditNeverRejected ==
    [][/\ (\E id \in onMap : \E geometry \in GeometriesOf(layers[id].cls) :
                HandleEdit(id, geometry))
          => /\ onMap' = onMap
             /\ workAreaGroup' = workAreaGroup
             /\ recordGroup' = recordGroup
             /\ rejected' = rejected
             /\ drawnFeatures' = drawnFeatures
             /\ Len(pendingFeatures') = Len(pendingFeatures) + 1
       /\ (Render /\ OnlyEditsQueued)
          => /\ Len(drawnFeatures') = Len(drawnFeatures)
             /\ \A k \in 1..Len(drawnFeatures) :
                   /\ drawnFeatures'[k].id = drawnFeatures[k].id
                   /\ drawnFeatures[k].layer \in EditedLayers
                      => drawnFeatures'[k].coordinates
                            = Carried(layers[drawnFeatures[k].layer].cls,
                                      layers[drawnFeatures[k].layer].geometry)]_vars

\* after an edit, both entries are in the registry with the same coordinates
\* and both shapes are on the map
C4_Witness ==
    /\ edits = 1
    /\ pendingFeatures = << >>
    /\ Len(drawnFeatures) = 2
    /\ drawnFeatures[1].coordinates = BaseRing
    /\ drawnFeatures[2].coordinates = BaseRing
    /\ { drawnFeatures[1].layer, drawnFeatures[2].layer } \subseteq onMap

\* every two points of s differ by the tolerance or more in latitude or in
\* longitude
PairwiseApart(s) ==
    \A i, j \in 1..Len(s) :
        i < j => \/ Abs(s[i].lat - s[j].lat) >= Tolerance
                 \/ Abs(s[i].lng - s[j].lng) >= Tolerance
\* every two points of s are further apart than the tolerance
FurtherApart(s) ==
    \A i, j \in 1..Len(s) :
        i < j => (s[i].lat - s[j].lat) * (s[i].lat - s[j].lat)
                   + (s[i].lng - s[j].lng) * (s[i].lng - s[j].lng) > Tolerance * Tolerance
\* the reversal of s and its rotations by 1 .. Len(s) - 1 places
Reorderings(s) == { Reverse(s) } \cup { Rotate(s, k) : k \in 1..(Len(s) - 1) }

\* the comparisons of the sequences on the grid with their reorderings
ApartSequencesOrderSensitive ==
    \A s \in SeqsUpTo(Grid, MaxRing) :
        (Len(s) >= 2 /\ PairwiseApart(s))
        => \A r \in Reorderings(s) : ~areCoordinatesEqual(s, r, Tolerance)
FurtherApartSequencesOrderSensitive ==
    \A s \in SeqsUpTo(Grid, MaxRing) :
        FurtherApart(s) => \A r \in Reorderings(s) : ~areCoordinatesEqual(s, r, Tolerance)
\* calculateArea on the sequences of 0, 1 and 2 points on the grid
ShortSequencesHaveNoArea == \A s \in SeqsUpTo(Grid, 2) : calculateArea(s) = 0

C6_EqualIffAllWithinTolerance ==
    pc = "done" =>
        LET a == arg.coords1
            b == arg.coords2
            tol == arg.tolerance
        IN  /\ ret[1] <=> /\ Len(a) = Len(b)
                          /\ \A i \in 1..Len(a) :
                                /\ Abs(a[i].lat - b[i].lat) < tol
                                /\ Abs(a[i].lng - b[i].lng) < tol
            /\ Len(a) # Len(b) => ret[1] = FALSE

\* two sequences of two points that differ by exactly the tolerance in one
\* latitude and by less everywhere else have been compared, with result false
C6_Witness ==
    /\ pc = "done"
    /\ ret = Some(FALSE)
    /\ Len(arg.coords1) = 2
    /\ Len(arg.coords2) = 2
    /\ Abs(arg.coords1[1].lat - arg.coords2[1].lat) = arg.tolerance
    /\ Abs(arg.coords1[1].lng - arg.coords2[1].lng) < arg.tolerance
    /\ Abs(arg.coords1[2].lat - arg.coords2[2].lat) < arg.tolerance
    /\ Abs(arg.coords1[2].lng - arg.coords2[2].lng) < arg.tolerance

C10_BandsByExactThresholds ==
    pc = "done" =>
        /\ ret[1].unit \in { "m2", "hectares", "km2" }
        /\ ret[1].unit = "m2" <=> arg < SqMeters(10000)
        /\ ret[1].unit = "hectares" <=> (SqMeters(10000) <= arg /\ arg < SqMeters(1000000))
        /\ ret[1].unit = "km2" <=> SqMeters(1000000) <= arg

\* exactly 10000 m2 has been rendered as 1.0000 hectares
C10_Witness ==
    /\ pc = "done"
    /\ arg = SqMeters(10000)
    /\ ret = Some([n |-> 10000, digits |-> 4, unit |-> "hectares"])

(***************************************************************************)
(* Area of an entry, clearing and removal                                  *)
(***************************************************************************)
HasAreaIffClosed(feature) ==
    (feature.area # None) <=> (feature.type \in { "polygon", "rectangle" })

\* C11: an entry of the registry carries an area exactly when its kind is
\* polygon or rectangle, as created and after any edits; polyline and marker
\* entries carry none.
C11_AreaIffPolygonOrRectangle ==
    /\ \A k \in 1..Len(drawnFeatures) : HasAreaIffClosed(drawnFeatures[k])
    /\ \A k \in 1..Len(pendingFeatures) :
          pendingFeatures[k][1] = "append" => HasAreaIffClosed(pendingFeatures[k][2])

\* an edited polyline is registered, next to nothing else
C11_Witness ==
    /\ edits = 1
    /\ pendingFeatures = << >>
    /\ Len(layers) = 1
    /\ Len(drawnFeatures) = 1
    /\ drawnFeatures[1].type = "polyline"
    /\ drawnFeatures[1].area = None
    /\ drawnFeatures[1].coordinates = layers[1].geometry

EntriesNotOf(features, layerType) ==
    SelectSeq(features, LAMBDA f : f.layerType # layerType)

\* C12: clearing one owning layer removes every registry entry of that owning
\* layer and keeps the entries of the other owning layer, unchanged and in the
\* same relative order.
C12_ClearLayerRemovesOnlyThatLayer ==
    [][\A layerType \in { "workArea", "record" } :
         (Render /\ pendingFeatures = << << "filter", layerType >> >>)
         => /\ \A k \in 1..Len(drawnFeatures') : drawnFeatures'[k].layerType # layerType
            /\ drawnFeatures' = EntriesNotOf(drawnFeatures, layerType)]_vars

\* the work areas were cleared while a record entry was registered: the record
\* entry is all that is left
C12_Witness ==
    /\ Len(layers) = 2
    /\ layers[1] # Discarded
    /\ workAreaGroup = {}
    /\ recordGroup = { 2 }
    /\ onMap = { 2 }
    /\ pendingFeatures = << >>
    /\ Len(drawnFeatures) = 1
    /\ drawnFeatures[1].layer = 2
    /\ drawnFeatures[1].layerType = "record"

EntriesNotReferringTo(features, layerId) ==
    SelectSeq(features, LAMBDA f : f.layer # layerId)

RefersTo(features, layerId) ==
    { k \in 1..Len(features) : features[k].layer = layerId }

\* C13: a removal event takes out of the registry exactly the entry that refers
\* to the removed shape and keeps every other entry, unchanged and in order; a
\* removal event for a shape no entry refers to leaves the registry as it was.
C13_RemoveTakesOutThatEntryOnly ==
    [][\A id \in 1..MaxShapes :
         (Render /\ pendingFeatures = << << "remove", id >> >>)
         => /\ RefersTo(drawnFeatures', id) = {}
            /\ drawnFeatures' = EntriesNotReferringTo(drawnFeatures, id)
            /\ Cardinality(RefersTo(drawnFeatures, id)) <= 1
            /\ Len(drawnFeatures') = Len(drawnFeatures) - Cardinality(RefersTo(drawnFeatures, id))
            /\ (RefersTo(drawnFeatures, id) = {} => drawnFeatures' = drawnFeatures)]_vars

\* the first of two registered shapes was removed with the plugin (it is still
\* a member of its group): the second one's entry is all that is left
C13_Witness ==
    /\ Len(layers) = 2
    /\ onMap = { 2 }
    /\ workAreaGroup \cup recordGroup = { 1, 2 }
    /\ pendingFeatures = << >>
    /\ Len(drawnFeatures) = 1
    /\ drawnFeatures[1].layer = 2

\* the user-drawn shapes on the map that belong to one of the two layer groups
DrawnShapesOnMap == onMap \cap (workAreaGroup \cup recordGroup)

\* C14: after Clear All the registry is empty and no user-drawn shape is left
\* on the map, in the work-area layer group or in the record layer group.
C14_ClearAllEmptiesRegistryAndMap ==
    [][/\ clearAllDrawnFeatures => DrawnShapesOnMap' = {}
       /\ (Render /\ pendingFeatures = << << "set", << >> >> >>)
          => (drawnFeatures' = << >> /\ DrawnShapesOnMap' = {})]_vars

(***************************************************************************)
(* onPolygonChange                                                         *)
(***************************************************************************)
\* the entries of drawnFeatures that are work-area polygons
IsWorkAreaPolygon(feature) ==
    feature.type = "polygon" /\ feature.layerType = "workArea"

WorkAreaPolygonOf(layerId) ==
    \E k \in 1..Len(drawnFeatures) :
        drawnFeatures[k].layer = layerId /\ IsWorkAreaPolygon(drawnFeatures[k])

\* the call was made by the handler of the event (the step before the render)
\* or by the update the render applies
Notified(call) ==
    \/ \E k \in 1..Len(calls) : calls[k] = call
    \/ \E k \in 1..Len(calls') : calls'[k] = call

\* C16: onPolygonChange is called after every accepted create of a work-area
\* polygon and after every edit of a work-area polygon, with the polygon's
\* coordinates and area, and after the removal or the clearing of a work-area
\* polygon, with an empty polygon and a null area.
C16_PolygonChangeAfterCreateEditRemoveClear ==
    [][/\ \A cls \in Classes : \A geometry \in DrawnGeometriesOf(cls) :
            (/\ HandleCreate(cls, geometry)
             /\ Len(pendingFeatures') > Len(pendingFeatures)
             /\ IsWorkAreaPolygon(pendingFeatures'[Len(pendingFeatures')][2]))
            => calls' = << PolygonChange(geometry[1], Some(calculateArea(geometry[1]))) >>
       /\ \A id \in 1..MaxShapes :
            (/\ Render
             /\ pendingFeatures = << << "edit", id >> >>
             /\ pendingDrawMode = None
             /\ WorkAreaPolygonOf(id))
            => Notified(PolygonChange(CoordinatesOf(layers[id]),
                                      Some(calculateArea(CoordinatesOf(layers[id])))))
       /\ \A id \in 1..MaxShapes :
            (/\ Render
             /\ pendingFeatures = << << "remove", id >> >>
             /\ pendingDrawMode = None
             /\ WorkAreaPolygonOf(id))
            => Notified(PolygonChange(<< >>, None))
       /\ (clearAllDrawnFeatures \/ clearLayerFeatures("workArea"))
            => calls' = << PolygonChange(<< >>, None) >>]_vars

(***************************************************************************)
(* Download GeoJSON                                                        *)
(***************************************************************************)
\* C15: the feature collection of Download GeoJSON holds exactly one feature
\* for every entry of the registry, whichever its owning layer, and no feature
\* of a shape that has no entry (checked when no update of the registry is
\* waiting for a render).
C15_DownloadHoldsExactlyTheEntries ==
    (pc = "downloaded" /\ pendingFeatures = << >>)
    => /\ { ret[1][k].layer : k \in 1..Len(ret[1]) }
            = { drawnFeatures[k].layer : k \in 1..Len(drawnFeatures) }
       /\ Len(ret[1]) = Len(drawnFeatures)

(***************************************************************************)
(* Copy JSON                                                               *)
(***************************************************************************)
\* position k of a list of GeoJSON positions is coordinate k, longitude first
LngLatInOrder(positions, coordinates) ==
    /\ Len(positions) = Len(coordinates)
    /\ \A k \in 1..Len(coordinates) :
          /\ Len(positions[k]) = 2
          /\ positions[k][1] = coordinates[k].lng
          /\ positions[k][2] = coordinates[k].lat

\* C17: the GeoJSON copied for an entry writes every position as [longitude,
\* latitude]; a polygon or rectangle entry gives a Polygon with exactly one
\* ring, a polyline entry a LineString with a flat list of positions, a marker
\* entry a Point with a single position.
C17_CopiedGeoJSONByKind ==
    pc = "done" =>
        LET geometry == ret[1].geometry
        IN  CASE arg.type \in { "polygon", "rectangle" } ->
                    /\ geometry.type = "Polygon"
                    /\ Len(geometry.coordinates) = 1
                    /\ LngLatInOrder(geometry.coordinates[1], arg.coordinates)
              [] arg.type = "polyline" ->
                    /\ geometry.type = "LineString"
                    /\ LngLatInOrder(geometry.coordinates, arg.coordinates)
              [] arg.type = "marker" ->
                    /\ geometry.type = "Point"
                    /\ geometry.coordinates = << arg.coordinates[1].lng, arg.coordinates[1].lat >>

\* a polygon entry of three coordinates, the first with a longitude other than
\* its latitude, was copied
C17_Witness ==
    /\ pc = "done"
    /\ arg.type = "polygon"
    /\ Len(arg.coordinates) = MaxRing
    /\ arg.coordinates[1].lat # arg.coordinates[1].lng
    /\ ret[1].geometry.type = "Polygon"

(***************************************************************************)
(* Subscription of the handlers                                            *)
(***************************************************************************)
PluginEvent ==
    \/ \E cls \in Classes : \E geometry \in DrawnGeometriesOf(cls) : HandleCreate(cls, geometry)
    \/ \E id \in onMap : \E geometry \in GeometriesOf(layers[id].cls) : HandleEdit(id, geometry)
    \/ \E id \in onMap : HandleRemove(id)

\* C18: the cleanup of the subscribing effect unsubscribes the create, edit and
\* remove handlers it subscribed, so that none is left after an unmount, at
\* most one of each is subscribed at any time, and one plugin event queues at
\* most one update of the registry.
C18_HandlersUnsubscribedOnTeardown ==
    [][/\ subscribed <= 1
       /\ subscribed' <= 1
       /\ Unmount => subscribed' = 0
       /\ Render => subscribed' = 1
       /\ PluginEvent => Len(pendingFeatures') <= Len(pendingFeatures) + 1]_vars

\* two shapes were created with a render in between, hence after a cleanup and
\* another subscription: each has one entry
C18_Witness ==
    /\ subscribed = 1
    /\ Len(layers) = 2
    /\ pendingFeatures = << >>
    /\ Len(drawnFeatures) = 2
    /\ drawnFeatures[1].layer = 1
    /\ drawnFeatures[2].layer = 2
    /\ Len(hFeatures) = 2

(***************************************************************************)
(* Georeferencing capture                                                  *)
(***************************************************************************)
GeorefStep ==
    \/ \E georefMode \in { "none", "point", "line", "polygon" } : SetGeorefMode(georefMode)
    \/ GeorefPropsChange
    \/ \E latlng \in ClickPositions : HandleClick(latlng)
    \/ HandleDblClick

\* a call of onGeorefComplete, as opposed to one of onPolygonChange
IsGeorefResult(call) == "type" \in DOMAIN call

\* C19: a click, a double click or a change of the georef mode during a capture
\* adds, removes or changes no registry entry and no drawn shape; the captured
\* coordinates go to onGeorefComplete and to no other callback.
C19_GeorefLeavesRegistryAlone ==
    [][GeorefStep =>
         /\ UNCHANGED << drawnFeatures, pendingFeatures, pendingSelected, selectedFeatureId >>
         /\ UNCHANGED << layers, onMap, workAreaGroup, recordGroup >>
         /\ \A k \in 1..Len(calls') : IsGeorefResult(calls'[k])]_vars

\* a path of two clicks was reported while a polygon was registered and
\* another one was waiting for the render
C19_Witness ==
    /\ Len(drawnFeatures) = 1
    /\ Len(pendingFeatures) = 1
    /\ georef.georefMode = "line"
    /\ Len(calls) = 1
    /\ IsGeorefResult(calls[1])
    /\ Len(calls[1].path) = 2
    /\ georef.points = << >>

\* C20: in line or polygon capture a double click reports a path exactly when
\* at least two points are accumulated; the path is the clicks made since the
\* georef mode was entered or since the path reported before, in the order of
\* the clicks, and the accumulated points are empty after the report.
C20_DoubleClickReportsTheClicks ==
    [][(HandleDblClick /\ georef.georefMode \in { "line", "polygon" })
       => /\ (calls' # << >>) <=> (Len(georef.points) >= 2)
          /\ (calls' # << >>)
             => /\ calls' = << GeorefPath(georef.georefMode, clicks) >>
                /\ georef'.points = << >>]_vars

(***************************************************************************)
(* Owning layer and kind of an accepted feature                            *)
(***************************************************************************)
\* the entry of the shape with that id, among the committed and the queued ones
LayerTypesOf(id, features, updates) ==
    { features[k].layerType : k \in { j \in 1..Len(features) : features[j].layer = id } }
    \cup { updates[k][2].layerType :
             k \in { j \in 1..Len(updates) :
                       updates[j][1] = "append" /\ updates[j][2].layer = id } }

\* C21: the owning layer of an accepted feature is record exactly when the
\* draw mode is record as the create event is handled, and workArea in the
\* modes workArea, edit and none; the shape is put into the layer group of
\* that owning layer, and the owning layer of an entry never changes.
C21_OwningLayerByDrawMode ==
    [][/\ \A cls \in Classes : \A geometry \in DrawnGeometriesOf(cls) :
            (HandleCreate(cls, geometry) /\ Len(pendingFeatures') > Len(pendingFeatures))
            => LET feature == pendingFeatures'[Len(pendingFeatures')][2]
               IN  /\ feature.layerType = "record" <=> drawMode = "record"
                   /\ feature.layerType = "workArea" <=> drawMode \in { "workArea", "edit", "null" }
                   /\ feature.layer \in recordGroup' <=> feature.layerType = "record"
                   /\ feature.layer \in workAreaGroup' <=> feature.layerType = "workArea"
       /\ \A id \in 1..MaxShapes :
            \A before \in LayerTypesOf(id, drawnFeatures, pendingFeatures) :
               \A after \in LayerTypesOf(id, drawnFeatures', pendingFeatures') :
                  before = after]_vars

\* a shape drawn in record mode was registered and then edited
C21_Witness ==
    /\ drawMode = "record"
    /\ edits = 1
    /\ pendingFeatures = << >>
    /\ Len(layers) = 1
    /\ recordGroup = { 1 }
    /\ workAreaGroup = {}
    /\ Len(drawnFeatures) = 1
    /\ drawnFeatures[1].layerType = "record"
    /\ drawnFeatures[1].coordinates = CoordinatesOf(layers[1])

\* the kind of the tool a shape of that class is drawn with
DrawnAs(cls) ==
    CASE cls = "Rectangle" -> "rectangle"
      [] cls = "Polygon" -> "polygon"
      [] cls = "Polyline" -> "polyline"
      [] cls = "Marker" -> "marker"

\* C22: the kind registered for an accepted feature is that of the drawn
\* shape: rectangle for a rectangle, polygon for a polygon, polyline for a
\* polyline, marker for a marker.
C22_KindMatchesDrawnShape ==
    [][\A cls \in Classes : \A geometry \in DrawnGeometriesOf(cls) :
         (HandleCreate(cls, geometry) /\ Len(pendingFeatures') > Len(pendingFeatures))
         => pendingFeatures'[Len(pendingFeatures')][2].type = DrawnAs(cls)]_vars

(***************************************************************************)
(* Selection                                                               *)
(***************************************************************************)
\* C25: selectedFeatureId is null or the id of an entry of the registry,
\* whenever no state update is waiting for a render.
C25_SelectedIsNullOrRegistered ==
    (pendingFeatures = << >> /\ pendingSelected = None)
    => \/ selectedFeatureId = None
       \/ \E k \in 1..Len(drawnFeatures) : selectedFeatureId = Some(drawnFeatures[k].id)

(***************************************************************************)
(* onPolygonChange on removal                                              *)
(***************************************************************************)
WorkAreaEntries(features) ==
    { k \in 1..Len(features) : features[k].layerType = "workArea" }

\* C26: a removal event that takes the last work-area feature out of the
\* registry calls onPolygonChange([], null), also while record entries stay
\* registered; a removal that leaves a work-area polygon registered does not
\* call it.
C26_PolygonChangeOnLastWorkAreaRemoval ==
    [][\A id \in 1..MaxShapes :
         (Render /\ pendingFeatures = << << "remove", id >> >>)
         => /\ (/\ WorkAreaEntries(drawnFeatures) # {}
                /\ WorkAreaEntries(drawnFeatures') = {})
               => calls' = << PolygonChange(<< >>, None) >>
            /\ (\E k \in 1..Len(drawnFeatures') : IsWorkAreaPolygon(drawnFeatures'[k]))
               => calls' = << >>]_vars

(***************************************************************************)
(* The life of the map                                                     *)
(***************************************************************************)
\* C23: once a render and its effects are done and a map exists, the create,
\* edit and remove handlers are subscribed on that map and not on one that
\* was removed, also when the render re-created the map and no dependency of
\* the subscribing effect changed.
C23_HandlersOnCurrentMap ==
    [][\A recreate, newCallback \in BOOLEAN :
         (RenderAndEffects(recreate, newCallback) /\ mapInstance' # NoMap)
         => (subscribed' = 1 /\ handlerMap' = mapInstance')]_vars

\* the layer group of an owning layer
GroupOf(layerType) == IF layerType = "record" THEN recordGroup ELSE workAreaGroup

\* C24: while no state update is waiting for a render, the shape of every
\* registry entry is in the layer group of the entry's owning layer, and every
\* user-drawn shape that is on the map in the work-area or the record layer
\* group has a registry entry.
C24_RegistryMatchesLayerGroups ==
    (pendingFeatures = << >> /\ subscribed > 0)
    => /\ \A k \in 1..Len(drawnFeatures) :
             drawnFeatures[k].layer \in GroupOf(drawnFeatures[k].layerType)
       /\ \A id \in DrawnShapesOnMap :
             \E k \in 1..Len(drawnFeatures) : drawnFeatures[k].layer = id

\* C27: the step deferred by 100 ms when a map is created runs only against
\* the map that exists: if that map was removed before the timer fires, the
\* timer does nothing to it and does not mark the component initialised.
C27_TimerNeverRunsOnRemovedMap ==
    [][\A m \in 1..MaxMaps :
         (TimerFires(m) /\ m # mapInstance)
         => pendingInitialized' = pendingInitialized]_vars


=============================================================================
